---- MODULE Spec2Model ----
(***************************************************************************)
(* Model of rokie: the terminal UI (src/src/tui.rs) driving the            *)
(* profile -> domain -> cookie -> field selection, its search, the         *)
(* terminal set-up and tear-down of run(), and the cookie database         *)
(* detection of src/src/util.rs and src/src/funcs.rs, and the loading of   *)
(* cookies of src/src/cookie_db.rs.                                        *)
(*                                                                         *)
(* Strings are sequences of one-character strings, Option<usize> is a      *)
(* sequence of length 0 (None) or 1 (Some(i)), and indices are 0-based as  *)
(* in the source.                                                          *)
(***************************************************************************)
EXTENDS Integers, Sequences, FiniteSets, TLC

VARIABLES
    cookie_dbs,       \* State.cookie_dbs: the stores handed to run()
    selection,        \* State.selection: the active level
    search_open,      \* State.search_open
    search_field,     \* State.search_field: the typed query
    search_matches,   \* State.search_matches: the pending-match stack
    profiles,         \* State.profiles: [items, selected]
    current_domains,  \* State.current_domains
    current_cookies,  \* State.current_cookies
    current_fields,   \* State.current_fields
    pc,               \* position of run() / run_ui()
    key,              \* the key code read in the current loop iteration
    raw_mode,         \* terminal raw mode is enabled
    alt_screen,       \* terminal is in the alternate screen
    file,             \* the file cookie_db_type() is called on
    det,              \* progress and outcome of cookie_db_type()
    db,               \* the SQLite database load_cookies() opens
    load              \* outcome of the last load_cookies() call

tuiVars == <<cookie_dbs, selection, search_open, search_field, search_matches,
             profiles, current_domains, current_cookies, current_fields,
             pc, key, raw_mode, alt_screen>>
detVars == <<file, det>>
loadVars == <<db, load>>
vars == <<cookie_dbs, selection, search_open, search_field, search_matches,
          profiles, current_domains, current_cookies, current_fields,
          pc, key, raw_mode, alt_screen, file, det, db, load>>

(***************************************************************************)
(* Bounds                                                                  *)
(***************************************************************************)
\* longest query typed into the search field
MaxQuery == 2

(***************************************************************************)
(* Option and string helpers                                               *)
(***************************************************************************)
None == <<>>
Some(i) == <<i>>

\* str::contains: q occurs in s as a contiguous substring (case-sensitive)
Contains(s, q) ==
    \E i \in 0..(Len(s) - Len(q)) : SubSeq(s, i + 1, i + Len(q)) = q

\* byte value of the characters used
CharRank(c) ==
    CASE c = "/" -> 47
      [] c = "1" -> 49 [] c = "2" -> 50 [] c = "3" -> 51 [] c = "4" -> 52
      [] c = "5" -> 53 [] c = "6" -> 54 [] c = "7" -> 55
      [] c = "C" -> 67 [] c = "D" -> 68
      [] c = "a" -> 97 [] c = "b" -> 98 [] c = "h" -> 104 [] c = "j" -> 106
      [] c = "k" -> 107 [] c = "l" -> 108 [] c = "q" -> 113
      [] c = "x" -> 120 [] c = "y" -> 121 [] c = "~" -> 126

\* lexicographic order of strings (Ord for str)
RECURSIVE StrLess(_, _)
StrLess(a, b) ==
    IF b = <<>> THEN FALSE
    ELSE IF a = <<>> THEN TRUE
    ELSE IF Head(a) # Head(b) THEN CharRank(Head(a)) < CharRank(Head(b))
    ELSE StrLess(Tail(a), Tail(b))

\* the strings of a set in ascending order
RECURSIVE SortedSeq(_)
SortedSeq(S) ==
    IF S = {} THEN <<>>
    ELSE LET m == CHOOSE x \in S : \A y \in S \ {x} : StrLess(x, y)
         IN <<m>> \o SortedSeq(S \ {m})

\* the 0-based indices i of items, in ascending order, with P(items[i])
RECURSIVE IndicesFrom(_, _, _)
IndicesFrom(flags, i, acc) ==
    IF i >= Len(flags) THEN acc
    ELSE IndicesFrom(flags, i + 1,
                     IF flags[i + 1] THEN Append(acc, i) ELSE acc)

Reverse(s) == [i \in 1..Len(s) |-> s[Len(s) + 1 - i]]
Front(s) == SubSeq(s, 1, Len(s) - 1)
Last(s) == s[Len(s)]

(***************************************************************************)
(* CookieDB (src/src/cookie_db.rs) and the stores of the model             *)
(***************************************************************************)
\* get_home(): the value of $HOME
get_home == <<"/", "h">>

\* Path::has_root
has_root(p) == Len(p) > 0 /\ p[1] = "/"

\* Path::parent of a path with at least one component
parent(p) ==
    LET slashes == {i \in 1..Len(p) : p[i] = "/"}
        cut == IF slashes = {} THEN 0
               ELSE CHOOSE i \in slashes : \A j \in slashes : j <= i
    IN IF cut = 0 THEN <<>>
       ELSE IF cut = 1 THEN <<"/">>
       ELSE SubSeq(p, 1, cut - 1)

\* str::replace: every non-overlapping occurrence of from, left to right
RECURSIVE replace(_, _, _)
replace(s, from, to) ==
    IF Len(s) < Len(from) \/ from = <<>> THEN s
    ELSE IF SubSeq(s, 1, Len(from)) = from
         THEN to \o replace(SubSeq(s, Len(from) + 1, Len(s)), from, to)
         ELSE <<Head(s)>> \o replace(Tail(s), from, to)

\* CookieDB::path_short
path_short(cdb) ==
    IF has_root(cdb.path)
    THEN replace(parent(cdb.path), get_home, <<"~">>)
    ELSE cdb.path

\* CookieDB::domains: the distinct hosts of the store, sorted
domains(cdb) ==
    SortedSeq({cdb.cookies[i].host : i \in 1..Len(cdb.cookies)})

\* CookieDB::cookies_for_domain: the cookies of a host, in load order
cookies_for_domain(cdb, domain) ==
    SelectSeq(cdb.cookies, LAMBDA c : c.host = domain)

\* CookieDB::cookie_for_domain: the first cookie of the host with the name
cookie_for_domain(cdb, name, domain) ==
    LET cs == SelectSeq(cdb.cookies,
                        LAMBDA c : c.host = domain /\ c.name = name)
    IN IF cs = <<>> THEN None ELSE Some(cs[1])

Ck(h, n, v) == [host |-> h, name |-> n, value |-> v]

\* a Chrome store with three hosts, one of them with a repeated cookie name
DbA == [path |-> <<"/", "h", "/", "a", "/", "C">>,
        typing |-> "Chrome",
        cookies |-> << Ck(<<"a">>, <<"x">>, <<"1">>),
                       Ck(<<"b">>, <<"x">>, <<"2">>),
                       Ck(<<"a", "b">>, <<"a", "y">>, <<"3">>),
                       Ck(<<"a">>, <<"b">>, <<"4">>),
                       Ck(<<"a">>, <<"x">>, <<"5">>) >>]
\* a Firefox store with one cookie
DbB == [path |-> <<"/", "h", "/", "a", "b", "/", "C">>,
        typing |-> "Firefox",
        cookies |-> << Ck(<<"b">>, <<"y">>, <<"7">>) >>]
\* a store whose cookies were never loaded
DbC == [path |-> <<"/", "h", "/", "b", "/", "C">>,
        typing |-> "Chrome",
        cookies |-> <<>>]

\* the collections of stores run() is started with
StoreConfigs == { <<>>, <<DbB>>, <<DbA, DbB, DbC>> }

(***************************************************************************)
(* StatefulList and State (state.rs)                                       *)
(***************************************************************************)
StatefulList(its) == [items |-> its, selected |-> None]

\* ListState::select
select(list, index) == [list EXCEPT !.selected = index]

\* StatefulList::next: wraps from the last item to the first
next(list) ==
    LET i == IF list.selected = None THEN 0
             ELSE IF list.selected[1] >= Len(list.items) - 1 THEN 0
             ELSE list.selected[1] + 1
    IN select(list, Some(i))

\* StatefulList::previous: wraps from the first item to the last (a list
\* without items has no last item: the cursor stays at 0)
previous(list) ==
    LET i == IF list.selected = None THEN 0
             ELSE IF list.selected[1] = 0
                  THEN (IF list.items = <<>> THEN 0 ELSE Len(list.items) - 1)
             ELSE list.selected[1] - 1
    IN select(list, Some(i))

\* the item under the cursor of a list, if any
selected_item(list) ==
    IF list.selected # None /\ list.selected[1] < Len(list.items)
    THEN Some(list.items[list.selected[1] + 1])
    ELSE None

\* State::selected_domain
selected_domain(doms) == selected_item(doms)
\* State::selected_cookie
selected_cookie(cooks) == selected_item(cooks)

\* State::from_cookie_dbs: the profiles are the short paths of the stores
from_cookie_dbs(dbs) == StatefulList([i \in 1..Len(dbs) |-> path_short(dbs[i])])

(***************************************************************************)
(* Keys                                                                    *)
(***************************************************************************)
Char(c) == [code |-> "Char", ch |-> c]
Code(n) == [code |-> n, ch |-> ""]
NoKey == Code("none")

\* the characters the keyboard of the model can type
TypedChars == {"a", "b", "h", "j", "k", "l", "q", "/", "D", "C"}
\* the characters typed while the search input is open
SearchChars == {"a", "b", "j", "q", "C"}
Keys == {Char(c) : c \in TypedChars} \cup
        {Code(n) : n \in {"Enter", "Esc", "Backspace", "Left", "Right",
                          "Up", "Down", "Tab"}}

(***************************************************************************)
(* Rendering: ui() recomputes the derived lists (src/src/tui.rs)           *)
(***************************************************************************)
\* the store of the selected profile, if any (state.cookie_dbs.get)
ui_cdb ==
    IF profiles.selected # None /\ profiles.selected[1] < Len(cookie_dbs)
    THEN Some(cookie_dbs[profiles.selected[1] + 1])
    ELSE None

\* the display strings of a cookie's attributes (Cookie::match_field)
match_fields(c) == <<c.value>>

\* current_domains after ui()
ui_domains ==
    IF ui_cdb # None
    THEN [current_domains EXCEPT !.items = domains(ui_cdb[1])]
    ELSE current_domains

\* the domain the cookies column is filled for, if any
ui_domain == IF ui_cdb # None THEN selected_domain(ui_domains) ELSE None

\* current_cookies after ui()
ui_cookies ==
    IF ui_domain # None
    THEN [current_cookies EXCEPT !.items =
            LET cs == cookies_for_domain(ui_cdb[1], ui_domain[1])
            IN [i \in 1..Len(cs) |-> cs[i].name]]
    ELSE current_cookies

\* the cookie the fields column is filled for, if any
ui_cookie ==
    LET name == IF ui_domain # None THEN selected_cookie(ui_cookies) ELSE None
    IN IF name # None
       THEN cookie_for_domain(ui_cdb[1], name[1], ui_domain[1])
       ELSE None

\* current_fields after ui()
ui_fields ==
    IF ui_cookie # None
    THEN LET its == match_fields(ui_cookie[1])
         IN [items |-> its,
             selected |-> IF selection = "Cookies" /\ Len(its) > 0
                          THEN Some(0) ELSE current_fields.selected]
    ELSE current_fields

\* run_ui(..).unwrap() on an error: the panic unwinds run(), which drops its
\* State and leaves the terminal as it is
Panic ==
    /\ pc' = "panicked"
    /\ selection' = "Profiles"
    /\ search_open' = FALSE
    /\ search_field' = <<>>
    /\ search_matches' = <<>>
    /\ profiles' = StatefulList(<<>>)
    /\ current_domains' = StatefulList(<<>>)
    /\ current_cookies' = StatefulList(<<>>)
    /\ current_fields' = StatefulList(<<>>)
    /\ key' = NoKey
    /\ UNCHANGED <<cookie_dbs, raw_mode, alt_screen>>
    /\ UNCHANGED detVars
    /\ UNCHANGED loadVars

\* term.draw(|f| ui(f, state)) succeeds
Draw ==
    /\ pc = "draw"
    /\ current_domains' = ui_domains
    /\ current_cookies' = ui_cookies
    /\ current_fields' = ui_fields
    /\ pc' = "poll"
    /\ key' = NoKey
    /\ UNCHANGED <<cookie_dbs, selection, search_open, search_field,
                   search_matches, profiles, raw_mode, alt_screen>>
    /\ UNCHANGED detVars
    /\ UNCHANGED loadVars

\* term.draw fails: run_ui returns the error and run() unwraps it
DrawError ==
    /\ pc = "draw"
    /\ Panic

(***************************************************************************)
(* Search (src/src/tui.rs)                                                 *)
(***************************************************************************)
\* Vec::pop
pop(v) == [value |-> IF v = <<>> THEN None ELSE Some(Last(v)),
           rest |-> IF v = <<>> THEN <<>> ELSE Front(v)]

\* the indices of the items that contain q, pushed in list order
matching(items, q) ==
    IndicesFrom([i \in 1..Len(items) |-> Contains(items[i], q)], 0, <<>>)

\* set_matches: push the matches, reverse, pop the first
set_matches(items, q, matches) ==
    pop(Reverse(matches \o matching(items, q)))

\* the matches of the Profiles level: pushed in list order, then popped
profile_matches(dbs, q) ==
    pop(matching([i \in 1..Len(dbs) |-> dbs[i].path], q))

\* handle_search_key(KeyCode::Enter)
SearchEnter ==
    /\ search_open' = FALSE
    /\ search_field' = <<>>
    /\ CASE selection = "Profiles" ->
              LET m == profile_matches(cookie_dbs, search_field)
              IN /\ search_matches' = m.rest
                 /\ profiles' = select(profiles, m.value)
                 /\ UNCHANGED <<current_domains, current_cookies>>
         [] selection = "Domains" ->
              LET m == set_matches(current_domains.items, search_field, <<>>)
              IN /\ search_matches' = m.rest
                 /\ current_domains' = select(current_domains, m.value)
                 /\ UNCHANGED <<profiles, current_cookies>>
         [] selection = "Cookies" ->
              LET m == set_matches(current_cookies.items, search_field, <<>>)
              IN /\ search_matches' = m.rest
                 /\ current_cookies' = select(current_cookies, m.value)
                 /\ UNCHANGED <<profiles, current_domains>>

\* a loop whose next iteration starts at the poll
loop_head_poll == "poll"

\* the position the loop of run_ui continues at after an iteration: the
\* term.draw at its head
loop_head == "draw"

\* an Esc arm that closes the search input without draining the buffer
SearchEsc_keep ==
    /\ search_open' = FALSE
    /\ UNCHANGED <<search_field, search_matches, profiles, current_domains,
                   current_cookies>>

\* handle_search_key(KeyCode::Esc)
SearchEsc ==
    /\ search_field' = <<>>
    /\ search_open' = FALSE
    /\ UNCHANGED <<search_matches, profiles, current_domains,
                   current_cookies>>

\* a Char arm in which j moves down the list of the active level
SearchChar_navigate(c) ==
    IF c = "j"
    THEN /\ UNCHANGED <<search_open, search_field, search_matches>>
         /\ CASE selection = "Profiles" ->
                   /\ profiles' = next(profiles)
                   /\ UNCHANGED <<current_domains, current_cookies>>
              [] selection = "Domains" ->
                   /\ current_domains' = next(current_domains)
                   /\ UNCHANGED <<profiles, current_cookies>>
              [] selection = "Cookies" ->
                   /\ current_cookies' = next(current_cookies)
                   /\ UNCHANGED <<profiles, current_domains>>
    ELSE /\ search_field' = Append(search_field, c)
         /\ UNCHANGED <<search_open, search_matches, profiles,
                        current_domains, current_cookies>>

\* handle_search_key(KeyCode::Char(c)): search_field.push(c)
SearchChar(c) ==
    /\ search_field' = Append(search_field, c)
    /\ UNCHANGED <<search_open, search_matches, profiles, current_domains,
                   current_cookies>>

\* handle_search_key: a key read while the search input is open
HandleSearchKey(k) ==
    /\ pc = "poll"
    /\ search_open
    /\ k.code = "Char" => Len(search_field) < MaxQuery /\ k.ch \in SearchChars
    /\ key' = k
    /\ pc' = loop_head
    /\ CASE k.code = "Enter" -> SearchEnter
         [] k.code = "Char" -> SearchChar(k.ch)
         [] k.code = "Backspace" ->
              /\ search_field' = (pop(search_field)).rest
              /\ UNCHANGED <<search_open, search_matches, profiles,
                             current_domains, current_cookies>>
         [] k.code = "Esc" -> SearchEsc
         [] OTHER ->
              UNCHANGED <<search_open, search_field, search_matches,
                          profiles, current_domains, current_cookies>>
    /\ UNCHANGED <<cookie_dbs, selection, current_fields, raw_mode,
                   alt_screen>>
    /\ UNCHANGED detVars
    /\ UNCHANGED loadVars

(***************************************************************************)
(* Navigation (src/src/tui.rs)                                             *)
(***************************************************************************)
IsLeft(k) == k = Code("Left") \/ k = Char("h")
IsDown(k) == k = Code("Down") \/ k = Char("j")
IsUp(k) == k = Code("Up") \/ k = Char("k")
IsRight(k) == k = Code("Right") \/ k = Char("l")

\* Left / h leaving the Domains split without deselecting its item
KeyLeft_keep ==
    CASE selection = "Profiles" ->
           UNCHANGED <<selection, profiles, current_domains, current_cookies>>
      [] selection = "Domains" ->
           /\ selection' = "Profiles"
           /\ UNCHANGED <<profiles, current_domains, current_cookies>>
      [] selection = "Cookies" ->
           /\ current_cookies' = select(current_cookies, None)
           /\ selection' = "Domains"
           /\ UNCHANGED <<profiles, current_domains>>

\* Left / h: deselect the current split
KeyLeft ==
    CASE selection = "Profiles" ->
           UNCHANGED <<selection, profiles, current_domains, current_cookies>>
      [] selection = "Domains" ->
           /\ current_domains' = select(current_domains, None)
           /\ selection' = "Profiles"
           /\ UNCHANGED <<profiles, current_cookies>>
      [] selection = "Cookies" ->
           /\ current_cookies' = select(current_cookies, None)
           /\ selection' = "Domains"
           /\ UNCHANGED <<profiles, current_domains>>

\* a move that always acts on the profiles list
KeyMove_profiles(down) ==
    /\ UNCHANGED selection
    /\ profiles' = (IF down THEN next(profiles) ELSE previous(profiles))
    /\ UNCHANGED <<current_domains, current_cookies>>

\* Down / j and Up / k: move within the active split
KeyMove(down) ==
    LET step(list) == IF down THEN next(list) ELSE previous(list)
    IN
    /\ UNCHANGED selection
    /\ CASE selection = "Profiles" ->
              /\ profiles' = step(profiles)
              /\ UNCHANGED <<current_domains, current_cookies>>
         [] selection = "Domains" ->
              /\ current_domains' = step(current_domains)
              /\ UNCHANGED <<profiles, current_cookies>>
         [] selection = "Cookies" ->
              /\ current_cookies' = step(current_cookies)
              /\ UNCHANGED <<profiles, current_domains>>

\* a descent that does not look at the length of the list below
KeyRight_unguarded ==
    CASE selection = "Profiles" ->
           /\ current_domains' = select(current_domains, Some(0))
           /\ selection' = "Domains"
           /\ UNCHANGED <<profiles, current_cookies>>
      [] selection = "Domains" ->
           /\ current_cookies' = select(current_cookies, Some(0))
           /\ selection' = "Cookies"
           /\ UNCHANGED <<profiles, current_domains>>
      [] OTHER ->
           UNCHANGED <<selection, profiles, current_domains, current_cookies>>

\* Right / l: select the next split
KeyRight ==
    CASE selection = "Profiles" /\ Len(current_domains.items) > 0 ->
           /\ current_domains' = select(current_domains, Some(0))
           /\ selection' = "Domains"
           /\ UNCHANGED <<profiles, current_cookies>>
      [] selection = "Domains" /\ Len(current_cookies.items) > 0 ->
           /\ current_cookies' = select(current_cookies, Some(0))
           /\ selection' = "Cookies"
           /\ UNCHANGED <<profiles, current_domains>>
      [] OTHER ->
           UNCHANGED <<selection, profiles, current_domains, current_cookies>>

\* handle_key: a key other than q read while the search input is closed
HandleKey(k) ==
    /\ pc = "poll"
    /\ ~search_open
    /\ k # Char("q")
    /\ key' = k
    /\ pc' = loop_head
    /\ CASE IsLeft(k) -> KeyLeft /\ UNCHANGED search_open
         [] IsDown(k) -> KeyMove(TRUE) /\ UNCHANGED search_open
         [] IsUp(k) -> KeyMove(FALSE) /\ UNCHANGED search_open
         [] IsRight(k) -> KeyRight /\ UNCHANGED search_open
         [] k = Char("/") ->
              /\ search_open' = TRUE
              /\ UNCHANGED <<selection, profiles, current_domains,
                             current_cookies>>
         [] OTHER ->
              UNCHANGED <<search_open, selection, profiles, current_domains,
                          current_cookies>>
    /\ UNCHANGED <<cookie_dbs, search_field, search_matches, current_fields,
                   raw_mode, alt_screen>>
    /\ UNCHANGED detVars
    /\ UNCHANGED loadVars

(***************************************************************************)
(* The event loop run_ui() and the terminal handling of run()              *)
(***************************************************************************)
\* q read while the search input is closed, without the return: the loop
\* goes on to the next iteration
Quit_continue ==
    /\ pc = "poll"
    /\ ~search_open
    /\ key' = Char("q")
    /\ pc' = "draw"
    /\ UNCHANGED <<cookie_dbs, selection, search_open, search_field,
                   search_matches, profiles, current_domains,
                   current_cookies, current_fields, raw_mode, alt_screen>>
    /\ UNCHANGED detVars
    /\ UNCHANGED loadVars

\* q read while the search input is closed: run_ui returns Ok(())
Quit ==
    /\ pc = "poll"
    /\ ~search_open
    /\ key' = Char("q")
    /\ pc' = "disable_raw_mode"
    /\ UNCHANGED <<cookie_dbs, selection, search_open, search_field,
                   search_matches, profiles, current_domains,
                   current_cookies, current_fields, raw_mode, alt_screen>>
    /\ UNCHANGED detVars
    /\ UNCHANGED loadVars

\* the poll times out, or the event read is not a key event
PollNoKey ==
    /\ pc = "poll"
    /\ pc' = loop_head
    /\ UNCHANGED <<cookie_dbs, selection, search_open, search_field,
                   search_matches, profiles, current_domains,
                   current_cookies, current_fields, key, raw_mode,
                   alt_screen>>
    /\ UNCHANGED detVars
    /\ UNCHANGED loadVars

\* poll() or read() fails: run_ui returns the error and run() unwraps it
PollError ==
    /\ pc = "poll"
    /\ Panic

\* a step of run() outside the loop: from position at to position ok when it
\* succeeds, with the terminal flags raw and alt afterwards
RunStep(at, ok, raw, alt) ==
    /\ pc = at
    /\ pc' = ok
    /\ raw_mode' = raw
    /\ alt_screen' = alt
    /\ UNCHANGED <<cookie_dbs, selection, search_open, search_field,
                   search_matches, profiles, current_domains,
                   current_cookies, current_fields, key>>
    /\ UNCHANGED detVars
    /\ UNCHANGED loadVars

\* enable_raw_mode()?
EnableRawMode == RunStep("enable_raw_mode", "enter_alt", TRUE, alt_screen)
\* execute!(stdout, EnterAlternateScreen, EnableMouseCapture)?
EnterAlternateScreen == RunStep("enter_alt", "new_terminal", raw_mode, TRUE)
\* disable_raw_mode()?
DisableRawMode == RunStep("disable_raw_mode", "leave_alt", FALSE, alt_screen)
\* execute!(terminal.backend_mut(), LeaveAlternateScreen, DisableMouseCapture)?
LeaveAlternateScreen == RunStep("leave_alt", "show_cursor", raw_mode, FALSE)
\* terminal.show_cursor()?; Ok(())
ShowCursor == RunStep("show_cursor", "returned_ok", raw_mode, alt_screen)

\* one of the ?-operators of run() returns the error to the caller
RunError ==
    /\ pc \in {"enable_raw_mode", "enter_alt", "new_terminal",
               "disable_raw_mode", "leave_alt", "show_cursor"}
    /\ pc' = "returned_err"
    /\ UNCHANGED <<cookie_dbs, selection, search_open, search_field,
                   search_matches, profiles, current_domains,
                   current_cookies, current_fields, key, raw_mode,
                   alt_screen>>
    /\ UNCHANGED detVars
    /\ UNCHANGED loadVars

\* Terminal::new(backend)?, State::from_cookie_dbs and the start of run_ui,
\* which selects the first profile
StartUi ==
    /\ pc = "new_terminal"
    /\ pc' = "draw"
    /\ profiles' = LET p == from_cookie_dbs(cookie_dbs)
                   IN IF Len(p.items) > 0 THEN select(p, Some(0)) ELSE p
    /\ UNCHANGED <<cookie_dbs, selection, search_open, search_field,
                   search_matches, current_domains, current_cookies,
                   current_fields, key, raw_mode, alt_screen>>
    /\ UNCHANGED detVars
    /\ UNCHANGED loadVars

(***************************************************************************)
(* Detection: cookie_db_type (src/src/util.rs, src/src/funcs.rs)           *)
(***************************************************************************)
\* SQLITE_FILE_ID, the bytes of "SQLite format 3"
SQLITE_FILE_ID ==
    <<83, 81, 76, 105, 116, 101, 32, 102, 111, 114, 109, 97, 116, 32, 51>>

\* the length of the buffer cookie_db_type reads
HeaderLen == Len(SQLITE_FILE_ID)

\* what a 1-row select of a table can meet in a file that is a database
TableStates == {"missing", "empty", "nonempty", "error"}

\* the first bytes of the files of the model: the signature, the signature
\* with one byte replaced by 'X' or by 0xFF, with its first two bytes replaced
\* by the UTF-8 encoding of U+00E9, and files shorter than the signature
Headers ==
    {SQLITE_FILE_ID}
    \cup {[SQLITE_FILE_ID EXCEPT ![i] = b] : i \in 1..HeaderLen, b \in {88, 255}}
    \cup {[SQLITE_FILE_ID EXCEPT ![1] = 195, ![2] = 169]}
    \cup {SubSeq(SQLITE_FILE_ID, 1, n) : n \in {0, HeaderLen - 1}}

\* the files of the model; SQLite answers every query on a file without the
\* signature with "file is not a database"
Files ==
    {[can_open |-> o, bytes |-> SQLITE_FILE_ID, conn_ok |-> c,
      moz_cookies |-> m, cookies |-> t] :
        o \in BOOLEAN, c \in BOOLEAN, m \in TableStates, t \in TableStates}
    \cup
    {[can_open |-> o, bytes |-> h, conn_ok |-> c,
      moz_cookies |-> "notadb", cookies |-> "notadb"] :
        o \in BOOLEAN, c \in BOOLEAN, h \in Headers \ {SQLITE_FILE_ID}}

\* String::from_utf8(..).is_ok(): the bytes are well-formed UTF-8
RECURSIVE utf8_valid(_)
utf8_valid(b) ==
    IF b = <<>> THEN TRUE
    ELSE LET c == b[1]
             n == Len(b)
             cont(x) == x \in 128..191
         IN IF c < 128 THEN utf8_valid(Tail(b))
            ELSE IF c \in 194..223
            THEN n >= 2 /\ cont(b[2]) /\ utf8_valid(SubSeq(b, 3, n))
            ELSE IF c \in 224..239
            THEN /\ n >= 3
                 /\ b[2] \in (IF c = 224 THEN 160..191
                              ELSE IF c = 237 THEN 128..159 ELSE 128..191)
                 /\ cont(b[3])
                 /\ utf8_valid(SubSeq(b, 4, n))
            ELSE IF c \in 240..244
            THEN /\ n >= 4
                 /\ b[2] \in (IF c = 240 THEN 144..191
                              ELSE IF c = 244 THEN 128..143 ELSE 128..191)
                 /\ cont(b[3])
                 /\ cont(b[4])
                 /\ utf8_valid(SubSeq(b, 5, n))
            ELSE FALSE

\* is_db_with_table with a probe that only asks whether the table exists
is_db_with_table_exists(f, table_name) ==
    f[table_name] \in {"empty", "nonempty"}

\* is_db_with_table: "SELECT 1 FROM table LIMIT 1" returns a row
is_db_with_table(f, table_name) ==
    f[table_name] = "nonempty"

Ok(t, opened) == [kind |-> "Ok", db_type |-> t, conn_opened |-> opened]
Err == [kind |-> "Err", db_type |-> "none", conn_opened |-> FALSE]

\* the part of cookie_db_type after the signature check: open and probe.
\* conn.close() cannot fail here (every statement of a probe is finalized
\* when the probe returns), so its unwrap() does not panic.
probe_tables(f) ==
    IF f.conn_ok
    THEN IF is_db_with_table(f, "moz_cookies") THEN Ok("Firefox", TRUE)
         ELSE IF is_db_with_table(f, "cookies") THEN Ok("Chrome", TRUE)
         ELSE Ok("Unknown", TRUE)
    ELSE Ok("Unknown", TRUE)

\* cookie_db_type reading with read() instead of read_exact(): a short file
\* leaves the rest of the zeroed buffer and is not an error
cookie_db_type_read(f) ==
    IF ~f.can_open THEN Err
    ELSE LET buf == [i \in 1..HeaderLen |->
                        IF i <= Len(f.bytes) THEN f.bytes[i] ELSE 0]
         IN IF utf8_valid(buf) /\ buf # SQLITE_FILE_ID
            THEN Ok("Unknown", FALSE)
            ELSE probe_tables(f)

\* cookie_db_type of src/src/util.rs
cookie_db_type(f) ==
    IF ~f.can_open THEN Err
    ELSE IF Len(f.bytes) < HeaderLen THEN Err
    ELSE IF utf8_valid(f.bytes) /\ f.bytes # SQLITE_FILE_ID
         THEN Ok("Unknown", FALSE)
         ELSE probe_tables(f)

\* cookie_db_type of src/src/funcs.rs: the signature is compared bytewise
cookie_db_type_funcs(f) ==
    IF ~f.can_open THEN Err
    ELSE IF Len(f.bytes) < HeaderLen THEN Err
    ELSE IF \E i \in 1..HeaderLen : f.bytes[i] # SQLITE_FILE_ID[i]
         THEN Ok("Unknown", FALSE)
         ELSE probe_tables(f)

\* Result::unwrap_or_else(|_| DbType::Unknown)
unwrap_or_unknown(r) == IF r.kind = "Ok" THEN r.db_type ELSE "Unknown"

\* a call of cookie_db_type on the file
CookieDbType ==
    /\ det.phase = "idle"
    /\ det' = [phase |-> "returned",
               res |-> cookie_db_type(file),
               res_funcs |-> cookie_db_type_funcs(file)]
    /\ UNCHANGED file
    /\ UNCHANGED tuiVars
    /\ UNCHANGED loadVars

\* an insertion that does not look at the type
inserted_store_any(t) == Some([typing |-> t, cookies |-> <<>>])

\* if !matches!(cdb.typing, DbType::Unknown) { cookie_dbs.insert(cdb); }
\* where cdb has cookies: vec![]
inserted_store(t) ==
    IF t # "Unknown" THEN Some([typing |-> t, cookies |-> <<>>]) ELSE None

\* cookie_dbs_from_profiles: the caller collapses an error to Unknown and
\* inserts a store with no cookies when the type is recognized
Discover ==
    /\ det.phase = "returned"
    /\ LET t == unwrap_or_unknown(det.res)
       IN det' = [phase |-> "discovered",
                  res |-> det.res,
                  res_funcs |-> det.res_funcs,
                  db_type |-> t,
                  inserted |-> inserted_store(t)]
    /\ UNCHANGED file
    /\ UNCHANGED tuiVars
    /\ UNCHANGED loadVars

DetIdle == [phase |-> "idle"]

InitDetect ==
    /\ file \in Files
    /\ det = DetIdle
    /\ db = <<>>
    /\ load = [res |-> "none"]
    /\ cookie_dbs = <<>>
    /\ selection = "Profiles"
    /\ search_open = FALSE
    /\ search_field = <<>>
    /\ search_matches = <<>>
    /\ profiles = [items |-> <<>>, selected |-> <<>>]
    /\ current_domains = [items |-> <<>>, selected |-> <<>>]
    /\ current_cookies = [items |-> <<>>, selected |-> <<>>]
    /\ current_fields = [items |-> <<>>, selected |-> <<>>]
    /\ pc = "enable_raw_mode"
    /\ key = [code |-> "none", ch |-> ""]
    /\ raw_mode = FALSE
    /\ alt_screen = FALSE

NextDetect ==
    \/ CookieDbType
    \/ Discover

SpecDetect == InitDetect /\ [][NextDetect]_vars

(***************************************************************************)
(* CookieDB::load_cookies (src/src/cookie_db.rs)                           *)
(*                                                                         *)
(* An i64 timestamp t is written as limbs <<a, b, c>> in base 10^6, t =    *)
(* a*10^12 + b*10^6 + c, and a count of seconds as <<a, b>> = a*10^6 + b.  *)
(* The limbs carry the sign of the value and all but the first are below   *)
(* 10^6 in magnitude, so the whole i64 range is covered with small         *)
(* integers.  No operation of get_unix_epoch can leave the i64 range.      *)
(***************************************************************************)
\* the divisor 1_000_000 of get_unix_epoch, which is also the limb base
Million == 1000000

\* 11_644_473_600, the seconds between 1601-01-01 and 1970-01-01
EpochOffset == <<11644, 473600>>

\* i64::MAX and i64::MIN
I64Max == <<9223372, 36854, 775807>>
I64Min == <<-9223372, -36854, -775808>>

\* bring the low limb of a two-limb value below the base
carry(p) ==
    IF p[2] <= -Million THEN <<p[1] - 1, p[2] + Million>>
    ELSE IF p[2] >= Million THEN <<p[1] + 1, p[2] - Million>>
    ELSE p

\* give both limbs the sign of the value
same_sign(p) ==
    IF p[1] > 0 /\ p[2] < 0 THEN <<p[1] - 1, p[2] + Million>>
    ELSE IF p[1] < 0 /\ p[2] > 0 THEN <<p[1] + 1, p[2] - Million>>
    ELSE p

\* i64 subtraction and addition on seconds
sub(p, q) == same_sign(carry(<<p[1] - q[1], p[2] - q[2]>>))
add(p, q) == same_sign(carry(<<p[1] + q[1], p[2] + q[2]>>))

\* a division that keeps the low limbs and drops the high one
div_million_low(timestamp) == <<timestamp[2], timestamp[3]>>

\* timestamp/1_000_000: i64 division truncates toward zero, which drops the
\* low limb
div_million(timestamp) == <<timestamp[1], timestamp[2]>>

\* CookieDB::table_name
table_name(typing) == IF typing = "Firefox" THEN "moz_cookies" ELSE "cookies"

\* a conversion that treats 0 like any other value
get_unix_epoch_nozero(typing, timestamp) ==
    IF typing = "Firefox" THEN div_million(timestamp)
    ELSE sub(div_million(timestamp), EpochOffset)

\* CookieDB::get_unix_epoch
get_unix_epoch(typing, timestamp) ==
    IF timestamp = <<0, 0, 0>> THEN <<0, 0>>
    ELSE IF typing = "Firefox" THEN div_million(timestamp)
    ELSE sub(div_million(timestamp), EpochOffset)

\* let field_idx = if self.typing==DbType::Chrome {0} else {1}
field_idx(typing) == IF typing = "Chrome" THEN 0 ELSE 1

\* SQLite column values: a text, an integer (as limbs) or NULL
SqlText(s) == [t |-> "text", s |-> s, v |-> <<0, 0, 0>>]
SqlInteger(n) == [t |-> "int", s |-> "", v |-> n]
SqlNull == [t |-> "null", s |-> "", v |-> <<0, 0, 0>>]

\* a row of the cookie table, in the column order of the query
Row(host, name, creation, expiry, last_access) ==
    [host |-> SqlText(host), name |-> SqlText(name), value |-> SqlText("v"),
     path |-> SqlText("/"), creation |-> SqlInteger(creation), expiry |-> SqlInteger(expiry),
     last_access |-> SqlInteger(last_access),
     http_only |-> SqlInteger(<<0, 0, 0>>), secure |-> SqlInteger(<<0, 0, 1>>),
     samesite |-> SqlInteger(<<0, 0, 2>>)]

\* rows whose columns all decode
RowSession == Row("a", "s", <<13285, 473600, 0>>, <<0, 0, 0>>, <<0, 0, 999999>>)
RowCreated == Row("b", "t", <<13281, 964800, 0>>, <<11644, 473600, 0>>, <<0, 0, -1>>)
RowExtreme == Row("c", "u", <<1641, 0, 0>>, I64Max, I64Min)
RowEdge == Row("d", "w", <<0, 1, 0>>, <<11644, 473599, 999999>>, <<0, -1, -1>>)

\* rows with a column of the wrong type: text in a timestamp column, NULL in
\* a text column
RowTextTime == [RowSession EXCEPT !.creation = SqlText("x")]
RowNullName == [RowCreated EXCEPT !.name = SqlNull]

Rows == {RowSession, RowCreated, RowExtreme, RowEdge, RowTextTime, RowNullName}

\* most rows in the cookie table
MaxRows == 2

Tables == UNION { [1..n -> Rows] : n \in 0..MaxRows }

\* The database file at the store's path: whether a connection opens, which
\* cookie table it has ("none": neither), which of the two sets of column
\* names (index into COOKIE_FIELDS) that table has, its rows, and the row at
\* which stepping the statement fails (None: stepping never fails).
Database(conn_ok, table, columns, rows, fail_at) ==
    [conn_ok |-> conn_ok, table |-> table, columns |-> columns,
     rows |-> rows, fail_at |-> fail_at]

NoConnection == Database(FALSE, "none", 0, <<>>, None)
NoTable == Database(TRUE, "none", 0, <<>>, None)

Schemas == { <<"cookies", 0>>, <<"moz_cookies", 1>>, <<"cookies", 1>> }

Dbs ==
    {NoConnection, NoTable} \cup
    { Database(TRUE, s[1], s[2], r[1], r[2]) :
        s \in Schemas,
        r \in { <<rows, f>> \in Tables \X ({None} \cup {Some(i) : i \in 0..(MaxRows - 1)}) :
                  f # None => f[1] < Len(rows) } }

\* row.get::<_, String>(i)
get_string(val) == IF val.t = "text" THEN Some(val.s) ELSE None

\* row.get::<_, i64>(i)
get_i64(val) == IF val.t = "int" THEN Some(val.v) ELSE None

\* row.get::<_, bool>(i): an integer column, non-zero is true
get_bool(val) == IF val.t = "int" THEN Some(val.v # <<0, 0, 0>>) ELSE None

\* row.get::<_, i32>(i): an integer column whose value fits 32 bits
get_i32(val) ==
    IF /\ val.t = "int"
       /\ val.v[1] = 0
       /\ \/ (val.v[2] > -2147 /\ val.v[2] < 2147)
          \/ (val.v[2] = 2147 /\ val.v[3] <= 483647)
          \/ (val.v[2] = -2147 /\ val.v[3] >= -483648)
    THEN Some(val.v[2] * Million + val.v[3])
    ELSE None

\* the closure handed to query_map: Some(cookie), or None when a column
\* fails to decode
map_row(typing, row) ==
    LET strs == <<get_string(row.host), get_string(row.name),
                  get_string(row.value), get_string(row.path)>>
        times == <<get_i64(row.creation), get_i64(row.expiry),
                   get_i64(row.last_access)>>
        flags == <<get_bool(row.http_only), get_bool(row.secure)>>
        site == get_i32(row.samesite)
    IN IF \/ \E i \in 1..4 : strs[i] = None
          \/ \E i \in 1..3 : times[i] = None
          \/ \E i \in 1..2 : flags[i] = None
          \/ site = None
       THEN None
       ELSE Some([host |-> strs[1][1], name |-> strs[2][1],
                  value |-> strs[3][1], path |-> strs[4][1],
                  creation |-> get_unix_epoch(typing, times[1][1]),
                  expiry |-> get_unix_epoch(typing, times[2][1]),
                  last_access |-> get_unix_epoch(typing, times[3][1]),
                  http_only |-> flags[1][1], secure |-> flags[2][1],
                  samesite |-> site[1]])

\* the items of the iterator query_map returns: one result per row stepped
\* to, and an error item when a step fails, after which the iterator ends
results_iter(typing, d) ==
    IF d.fail_at = None
    THEN [i \in 1..Len(d.rows) |-> map_row(typing, d.rows[i])]
    ELSE [i \in 1..d.fail_at[1] |-> map_row(typing, d.rows[i])] \o <<None>>

\* collecting that stops at the first error item
RECURSIVE take_while_ok(_)
take_while_ok(results) ==
    IF results = <<>> \/ Head(results) = None THEN <<>>
    ELSE <<Head(results)[1]>> \o take_while_ok(Tail(results))

\* results_iter.filter_map(|r| r.ok()).collect()
RECURSIVE filter_map_ok(_)
filter_map_ok(results) ==
    IF results = <<>> THEN <<>>
    ELSE (IF Head(results) = None THEN <<>> ELSE <<Head(results)[1]>>)
         \o filter_map_ok(Tail(results))

\* conn.prepare(&query): the query names the table of table_name() and the
\* columns COOKIE_FIELDS[..][field_idx]
prepare_ok(typing, d) ==
    d.table = table_name(typing) /\ d.columns = field_idx(typing)

\* CookieDB::load_cookies: the result and the store after the call
load_cookies(store, d) ==
    IF ~d.conn_ok THEN [res |-> "Err", store |-> store]
    ELSE IF ~prepare_ok(store.typing, d) THEN [res |-> "Err", store |-> store]
    ELSE [res |-> "Ok",
          store |-> [store EXCEPT !.cookies =
                        filter_map_ok(results_iter(store.typing, d))]]

LoadIdle == [res |-> "none"]

\* a call of load_cookies on the discovered store
LoadCookies ==
    /\ det.phase = "discovered"
    /\ det.inserted # None
    /\ LET r == load_cookies(det.inserted[1], db)
       IN /\ det' = [det EXCEPT !.inserted = Some(r.store)]
          /\ load' = [res |-> r.res, db |-> db]
    /\ UNCHANGED <<file, db>>
    /\ UNCHANGED tuiVars

\* the database file is replaced between two loads
DbReplaced ==
    /\ det.phase = "discovered"
    /\ load # LoadIdle
    /\ \E d \in {NoConnection, NoTable} : d # db /\ db' = d
    /\ UNCHANGED <<file, det, load>>
    /\ UNCHANGED tuiVars

\* the files of Files that open and carry the SQLite signature, with each
\* cookie table either missing or holding rows
LoadFiles ==
    { f \in Files : /\ f.can_open /\ f.conn_ok
                    /\ f.bytes = SQLITE_FILE_ID
                    /\ f.moz_cookies \in {"missing", "nonempty"}
                    /\ f.cookies \in {"missing", "nonempty"} }

InitLoad ==
    /\ file \in LoadFiles
    /\ det = DetIdle
    /\ db \in Dbs
    /\ load = LoadIdle
    /\ cookie_dbs = <<>>
    /\ selection = "Profiles"
    /\ search_open = FALSE
    /\ search_field = <<>>
    /\ search_matches = <<>>
    /\ profiles = [items |-> <<>>, selected |-> <<>>]
    /\ current_domains = [items |-> <<>>, selected |-> <<>>]
    /\ current_cookies = [items |-> <<>>, selected |-> <<>>]
    /\ current_fields = [items |-> <<>>, selected |-> <<>>]
    /\ pc = "enable_raw_mode"
    /\ key = [code |-> "none", ch |-> ""]
    /\ raw_mode = FALSE
    /\ alt_screen = FALSE

NextLoad ==
    \/ CookieDbType
    \/ Discover
    \/ LoadCookies
    \/ DbReplaced

SpecLoad == InitLoad /\ [][NextLoad]_vars

\* CookieDB { path, typing, cookies: vec![] } built directly with any of the
\* three types, as the fields of the struct allow, and then loaded
InitConstructed ==
    /\ file = <<>>
    /\ \E t \in {"Firefox", "Chrome", "Unknown"} :
         det = [phase |-> "discovered",
                inserted |-> Some([typing |-> t, cookies |-> <<>>])]
    /\ db \in Dbs
    /\ load = LoadIdle
    /\ cookie_dbs = <<>>
    /\ selection = "Profiles"
    /\ search_open = FALSE
    /\ search_field = <<>>
    /\ search_matches = <<>>
    /\ profiles = [items |-> <<>>, selected |-> <<>>]
    /\ current_domains = [items |-> <<>>, selected |-> <<>>]
    /\ current_cookies = [items |-> <<>>, selected |-> <<>>]
    /\ current_fields = [items |-> <<>>, selected |-> <<>>]
    /\ pc = "enable_raw_mode"
    /\ key = [code |-> "none", ch |-> ""]
    /\ raw_mode = FALSE
    /\ alt_screen = FALSE

NextConstructed ==
    \/ LoadCookies
    \/ DbReplaced

SpecConstructed == InitConstructed /\ [][NextConstructed]_vars

(***************************************************************************)
(* Specification of the interactive session                                *)
(***************************************************************************)
Init ==
    /\ cookie_dbs \in StoreConfigs
    /\ selection = "Profiles"
    /\ search_open = FALSE
    /\ search_field = <<>>
    /\ search_matches = <<>>
    /\ profiles = StatefulList(<<>>)
    /\ current_domains = StatefulList(<<>>)
    /\ current_cookies = StatefulList(<<>>)
    /\ current_fields = StatefulList(<<>>)
    /\ pc = "enable_raw_mode"
    /\ key = NoKey
    /\ raw_mode = FALSE
    /\ alt_screen = FALSE
    /\ file = <<>>
    /\ det = DetIdle
    /\ db = <<>>
    /\ load = LoadIdle

Next ==
    \/ EnableRawMode
    \/ EnterAlternateScreen
    \/ StartUi
    \/ Draw
    \/ DrawError
    \/ PollNoKey
    \/ PollError
    \/ Quit
    \/ \E k \in Keys : HandleKey(k)
    \/ \E k \in Keys : HandleSearchKey(k)
    \/ DisableRawMode
    \/ LeaveAlternateScreen
    \/ ShowCursor
    \/ RunError

Spec == Init /\ [][Next]_vars

(***************************************************************************)
(* Properties of the search                                                *)
(***************************************************************************)
\* the list of the active level
ActiveList ==
    CASE selection = "Profiles" -> profiles
      [] selection = "Domains" -> current_domains
      [] selection = "Cookies" -> current_cookies

\* the indices of the items of the active level that contain q
ItemMatches(q) ==
    {i \in 0..(Len(ActiveList.items) - 1) :
        Contains(ActiveList.items[i + 1], q)}

\* the step that handles Enter while the search input is open
SearchCommit == pc = "poll" /\ search_open /\ key' = Code("Enter")

Min(S) == CHOOSE x \in S : \A y \in S : x <= y

\* C1: a search committed with Enter for a query that no item of the active
\* level contains leaves the selected index of the active level's list as it
\* was (it is not cleared) and closes the search input.
C1_SearchMissKeepsSelection ==
    [][(SearchCommit /\ ItemMatches(search_field) = {})
        => (ActiveList'.selected = ActiveList.selected /\ ~search_open')]_vars

\* C2: a search committed for a query that at least one item of the active
\* level contains moves the selection of that level to the lowest-indexed
\* matching item, at each of the levels Profiles, Domains and Cookies.
C2_SearchSelectsFirstMatch ==
    [][(SearchCommit /\ ItemMatches(search_field) # {})
        => ActiveList'.selected = Some(Min(ItemMatches(search_field)))]_vars

(***************************************************************************)
(* Properties of the cascading selections                                  *)
(***************************************************************************)
\* the names of the cookies of a host of a store
cookie_names(cdb, domain) ==
    LET cs == cookies_for_domain(cdb, domain)
    IN [i \in 1..Len(cs) |-> cs[i].name]

\* the domains list is the one of the selected profile
DomainsFresh ==
    /\ ui_cdb # None
    /\ current_domains.items = domains(ui_cdb[1])

\* the cookies list is the one of the selected profile and domain
CookiesFresh ==
    /\ DomainsFresh
    /\ selected_domain(current_domains) # None
    /\ current_cookies.items =
         cookie_names(ui_cdb[1], selected_domain(current_domains)[1])

\* C3: after every key event and the render that follows it, a selected
\* domain belongs to the domains list of the currently selected profile and a
\* selected cookie to the cookies list of the currently selected profile and
\* domain.
C3_NoStaleChildSelection ==
    pc = "poll" =>
        /\ current_domains.selected # None => DomainsFresh
        /\ current_cookies.selected # None => CookiesFresh

\* with the Profiles level active no domain and no cookie is selected, with
\* the Domains level active no cookie is selected
ChildSelectionsCleared ==
    /\ selection = "Profiles" =>
         current_domains.selected = None /\ current_cookies.selected = None
    /\ selection = "Domains" => current_cookies.selected = None

\* C4: every transition that changes the profile selection leaves no domain
\* and no cookie selected; while Profiles is the active level both child
\* selections are None, while Domains is the active level no cookie is
\* selected.
C4_ProfileChangeClearsChildren ==
    /\ []ChildSelectionsCleared
    /\ [][profiles'.selected # profiles.selected
          => (current_domains'.selected = None
              /\ current_cookies'.selected = None)]_vars

\* a key moved the profile selection to the second profile while the domains
\* list still holds the domains of the first
C4_Witness ==
    /\ pc = "draw"
    /\ key = Char("j")
    /\ selection = "Profiles"
    /\ profiles.selected = Some(1)
    /\ current_domains.items = domains(cookie_dbs[1])
    /\ current_domains.items # <<>>

ValidSelection(list) ==
    list.selected = None
    \/ (list.selected[1] >= 0 /\ list.selected[1] < Len(list.items))

\* C5: in every reachable state the selected index of each of the profiles,
\* domains and cookies lists is None or an index below the length of the
\* list's current items, also when the list is empty.
C5_SelectedIndexValid ==
    /\ ValidSelection(profiles)
    /\ ValidSelection(current_domains)
    /\ ValidSelection(current_cookies)

(***************************************************************************)
(* Properties of run() and the event loop                                  *)
(***************************************************************************)
RunEnded == pc \in {"returned_ok", "returned_err", "panicked"}

\* C6: when run() has ended, by a normal quit, by an error of the render and
\* event loop or by an error of the terminal set-up after raw mode was
\* enabled, raw mode is disabled and the alternate screen is left.
C6_TerminalRestoredOnExit ==
    RunEnded => (~raw_mode /\ ~alt_screen)

\* the step that handles the key q
ReadsQ == pc = "poll" /\ key' = Char("q")

\* C7: the key q ends the interactive loop in every state of the session,
\* also while the search input is open.
C7_QuitAlwaysEndsLoop ==
    [][ReadsQ => pc' \notin {"draw", "poll"}]_vars

\* C7 as amended: the key q ends the interactive loop when the search input
\* is closed; while the search input is open it is appended to the search
\* buffer and the loop continues with the search still open.
C7_QuitEndsLoopOutsideSearch ==
    [][ReadsQ =>
        IF search_open
        THEN /\ pc' = "draw"
             /\ search_open'
             /\ search_field' = Append(search_field, "q")
        ELSE pc' = "disable_raw_mode"]_vars

\* q was read with the Cookies level active and the loop has ended
C7_Witness ==
    /\ pc = "disable_raw_mode"
    /\ key = Char("q")
    /\ selection = "Cookies"

(***************************************************************************)
(* Properties of the detection                                             *)
(***************************************************************************)
\* File::open fails or read_exact cannot fill the 15-byte buffer
Unreadable == ~file.can_open \/ Len(file.bytes) < HeaderLen

\* C8: cookie_db_type never returns an error: for every file, also one that
\* cannot be opened or is shorter than 15 bytes, it yields a variant, and
\* Unknown for the files it cannot read.
C8_DetectionNeverErrs ==
    /\ det.phase # "idle" =>
         /\ det.res.kind = "Ok"
         /\ Unreadable => det.res.db_type = "Unknown"
    /\ det.phase # "idle" =>
         /\ det.res_funcs.kind = "Ok"
         /\ Unreadable => det.res_funcs.db_type = "Unknown"

DbTypes == {"Chrome", "Firefox", "Unknown"}

\* C8 as amended: cookie_db_type returns an error exactly for the files that
\* cannot be opened or are shorter than 15 bytes and a variant for every other
\* file; its caller cookie_dbs_from_profiles collapses the error to Unknown,
\* so that discovery detects exactly one variant for every file, Unknown for
\* the unreadable ones, and adds no store for them.
C8_ErrorCollapsedByCaller ==
    /\ det.phase # "idle" =>
         /\ det.res.kind = "Err" <=> Unreadable
         /\ det.res_funcs.kind = "Err" <=> Unreadable
         /\ det.res.kind = "Ok" => det.res.db_type \in DbTypes
         /\ det.res_funcs.kind = "Ok" => det.res_funcs.db_type \in DbTypes
    /\ det.phase = "discovered" =>
         /\ det.db_type \in DbTypes
         /\ Unreadable => (det.db_type = "Unknown" /\ det.inserted = None)

\* discovery has collapsed the error of a file shorter than 15 bytes
C8_Witness ==
    /\ det.phase = "discovered"
    /\ file.can_open
    /\ Len(file.bytes) = HeaderLen - 1
    /\ det.res.kind = "Err"
    /\ det.db_type = "Unknown"

\* C9: for every file whose first 15 bytes differ from the signature, also
\* when they are not valid UTF-8, detection returns Unknown without trying to
\* open the file as a database.
C9_BadSignatureNeverOpened ==
    (det.phase # "idle" /\ ~Unreadable /\ file.bytes # SQLITE_FILE_ID)
        => (det.res = Ok("Unknown", FALSE))

\* C10: for a file with the signature that opens as a database, detection
\* returns Firefox when moz_cookies exists and is not empty, otherwise Chrome
\* when cookies exists and is not empty, otherwise Unknown; a probe that
\* fails (missing table, empty table, locked or corrupt file) counts as
\* absence.
C10_ProbeOrder ==
    (det.phase # "idle" /\ ~Unreadable /\ file.bytes = SQLITE_FILE_ID
     /\ file.conn_ok)
        => /\ det.res.kind = "Ok"
           /\ det.res.db_type =
                IF file.moz_cookies = "nonempty" THEN "Firefox"
                ELSE IF file.cookies = "nonempty" THEN "Chrome"
                ELSE "Unknown"

\* a database whose moz_cookies table is empty and whose cookies table is not
\* was detected as Chrome
C10_Witness ==
    /\ det.phase = "returned"
    /\ ~Unreadable
    /\ file.bytes = SQLITE_FILE_ID
    /\ file.conn_ok
    /\ file.moz_cookies = "empty"
    /\ file.cookies = "nonempty"
    /\ det.res.db_type = "Chrome"

(***************************************************************************)
(* Claims on load_cookies, checked under SpecLoad                          *)
(***************************************************************************)
\* the store the discovery inserted, as load_cookies left it
Store == det.inserted[1]

\* the last call of load_cookies returned Ok after stepping through every row
\* of the table, and every row decoded
LoadedAllRows ==
    /\ det.phase = "discovered"
    /\ det.inserted # None
    /\ load.res = "Ok"
    /\ load.db.fail_at = None
    /\ Len(Store.cookies) = Len(load.db.rows)

\* both limbs of a count of seconds carry its sign and the low one is below
\* the base
WellFormed(r) ==
    /\ r[2] > -Million /\ r[2] < Million
    /\ ~(r[1] > 0 /\ r[2] < 0)
    /\ ~(r[1] < 0 /\ r[2] > 0)

\* r is the converted value the specification gives for the raw value t:
\* the quotient of t by 10^6 is the high limbs of t
Converted(typing, t, r) ==
    /\ WellFormed(r)
    /\ IF t = <<0, 0, 0>> THEN r = <<0, 0>>
       ELSE IF typing = "Firefox" THEN r = <<t[1], t[2]>>
       ELSE add(r, EpochOffset) = <<t[1], t[2]>>

\* C11: every timestamp of a loaded cookie is the conversion of the raw
\* value of its row: 0 for 0; the raw value divided by 1,000,000 for a
\* Firefox store; that quotient less 11,644,473,600 for a Chrome store; and
\* this for creation, expiry and last_access alike.
C11_TimestampConversion ==
    LoadedAllRows =>
        \A i \in 1..Len(Store.cookies) :
            /\ Converted(Store.typing, load.db.rows[i].creation.v,
                         Store.cookies[i].creation)
            /\ Converted(Store.typing, load.db.rows[i].expiry.v,
                         Store.cookies[i].expiry)
            /\ Converted(Store.typing, load.db.rows[i].last_access.v,
                         Store.cookies[i].last_access)

\* a Chrome store loaded a session cookie (raw expiry 0) and the extreme
\* raw values
C11_Witness ==
    /\ LoadedAllRows
    /\ Store.typing = "Chrome"
    /\ load.db.rows = <<RowSession, RowExtreme>>
    /\ Store.cookies[1].expiry = <<0, 0>>
    /\ Store.cookies[1].creation = <<1641, 0>>
    /\ Store.cookies[2].last_access = <<-9235016, -510454>>

\* the scenario of C12: a Firefox store whose table has two rows, one with
\* raw expiry 0 and one with raw creation 13281964800000000, was loaded
TwoRowScenario ==
    /\ LoadedAllRows
    /\ Store.typing = "Firefox"
    /\ Len(load.db.rows) = 2
    /\ \E i \in 1..2 : load.db.rows[i].expiry.v = <<0, 0, 0>>
    /\ \E i \in 1..2 : load.db.rows[i].creation.v = <<13281, 964800, 0>>

\* C12 as stated: the scenario yields a cookie with expiry 0 and a cookie
\* with creation 1641000000.
C12_ScenarioAsStated ==
    TwoRowScenario =>
        /\ \E i \in 1..2 : Store.cookies[i].expiry = <<0, 0>>
        /\ \E i \in 1..2 : Store.cookies[i].creation = <<1641, 0>>

\* C12: the scenario yields a cookie with expiry 0 and a cookie with
\* creation 13281964800, the raw value divided by 1,000,000.
C12_ScenarioCreation ==
    TwoRowScenario =>
        /\ \E i \in 1..2 : Store.cookies[i].expiry = <<0, 0>>
        /\ \E i \in 1..2 : Store.cookies[i].creation = <<13281, 964800>>

C12_Witness ==
    /\ TwoRowScenario
    /\ load.db.rows = <<RowSession, RowCreated>>
    /\ Store.cookies[1].expiry = <<0, 0>>
    /\ Store.cookies[2].creation = <<13281, 964800>>

\* the rows of r that decode, in the order of r
RECURSIVE Decodable(_, _)
Decodable(typing, r) ==
    IF r = <<>> THEN <<>>
    ELSE (IF map_row(typing, Head(r)) = None THEN <<>>
          ELSE <<map_row(typing, Head(r))[1]>>)
         \o Decodable(typing, Tail(r))

\* the load query executes on database d for a store of the given type
QueryExecutes(typing, d) ==
    d.conn_ok /\ prepare_ok(typing, d) /\ d.fail_at = None

\* the rows of r with an undecodable column
Undecodable(typing, r) == {i \in 1..Len(r) : map_row(typing, r[i]) = None}

\* C13: a load whose query executes returns Ok and leaves as cookies
\* exactly the rows that decode, in table order; a table with one
\* undecodable row gives one cookie fewer than it has rows.
C13_UndecodableRowsDropped ==
    (/\ det.phase = "discovered" /\ det.inserted # None
     /\ load # LoadIdle
     /\ QueryExecutes(Store.typing, load.db))
    => /\ load.res = "Ok"
       /\ Store.cookies = Decodable(Store.typing, load.db.rows)
       /\ Cardinality(Undecodable(Store.typing, load.db.rows)) = 1
            => Len(Store.cookies) = Len(load.db.rows) - 1

\* a table whose first row has text in a timestamp column was loaded: the
\* row after it is the only cookie
C13_Witness ==
    /\ det.phase = "discovered" /\ det.inserted # None
    /\ load.res = "Ok"
    /\ load.db.rows = <<RowTextTime, RowEdge>>
    /\ load.db.fail_at = None
    /\ Len(Store.cookies) = 1
    /\ Store.cookies[1].host = "d"

\* a step of load_cookies on the discovered store that changes the state
LoadStep ==
    /\ det.phase = "discovered"
    /\ det.inserted # None
    /\ db' = db
    /\ <<det, load>>' # <<det, load>>

\* C14: a load whose query cannot be executed (the connection does not
\* open, the statement does not prepare, or stepping it fails) returns an
\* error and leaves the cookies of the store as they were.
C14_LoadErrorSurfaced ==
    [][(LoadStep /\ ~QueryExecutes(Store.typing, db))
        => (load'.res = "Err" /\ det'.inserted = det.inserted)]_vars

\* C15: after discovery and any number of loads a store has cookies only
\* if its type is not Unknown; discovery inserts a store exactly when the
\* detected type is recognized, and with no cookies.
C15_CookiesOnlyIfRecognized ==
    /\ (det.phase = "discovered" /\ det.inserted # None)
        => /\ Store.typing \in {"Firefox", "Chrome"}
           /\ Store.cookies # <<>> => Store.typing # "Unknown"
    /\ (det.phase = "discovered" /\ load = LoadIdle)
        => /\ det.inserted # None <=> det.db_type # "Unknown"
           /\ det.inserted # None =>
                (Store.cookies = <<>> /\ Store.typing = det.db_type)

\* a Firefox store holds the cookies of its two rows after a load
C15_Witness ==
    /\ det.phase = "discovered" /\ det.inserted # None
    /\ load.res = "Ok"
    /\ Store.typing = "Firefox"
    /\ Len(Store.cookies) = 2

(***************************************************************************)
(* Claims on the navigation and the search, checked under Spec             *)
(***************************************************************************)
\* the selected index of each level
Selections ==
    <<profiles.selected, current_domains.selected, current_cookies.selected>>

\* the step in which handle_key handles a key, by the key it read
NormalKey == pc = "poll" /\ ~search_open /\ pc' = "draw"

\* C16: right/l with Profiles (Domains) active and at least one item in the
\* domains (cookies) list selects index 0 there and makes that level
\* active; in every other case the active level and all selections stay.
C16_Descend ==
    [][(NormalKey /\ IsRight(key')) =>
        IF selection = "Profiles" /\ Len(current_domains.items) >= 1
        THEN /\ selection' = "Domains"
             /\ Selections' = <<profiles.selected, Some(0),
                                current_cookies.selected>>
        ELSE IF selection = "Domains" /\ Len(current_cookies.items) >= 1
        THEN /\ selection' = "Cookies"
             /\ Selections' = <<profiles.selected, current_domains.selected,
                                Some(0)>>
        ELSE selection' = selection /\ Selections' = Selections]_vars

\* l descended from a selected domain to the first cookie
C16_Witness ==
    /\ pc = "draw"
    /\ key = Char("l")
    /\ selection = "Cookies"
    /\ current_domains.selected # None
    /\ current_cookies.selected = Some(0)

\* C17: left/h with Domains or Cookies active clears the selection of that
\* level, makes the level above active and keeps the selections of the
\* shallower levels; with Profiles active it changes nothing.
C17_Ascend ==
    [][(NormalKey /\ IsLeft(key')) =>
        CASE selection = "Domains" ->
               /\ selection' = "Profiles"
               /\ current_domains'.selected = None
               /\ profiles'.selected = profiles.selected
          [] selection = "Cookies" ->
               /\ selection' = "Domains"
               /\ current_cookies'.selected = None
               /\ profiles'.selected = profiles.selected
               /\ current_domains'.selected = current_domains.selected
          [] selection = "Profiles" ->
               <<selection, profiles, current_domains, current_cookies,
                 search_open, search_field, search_matches, cookie_dbs>>'
               = <<selection, profiles, current_domains, current_cookies,
                   search_open, search_field, search_matches, cookie_dbs>>
    ]_vars

\* h ascended from the cookies of the second domain: the domain stays
\* selected, no cookie is
C17_Witness ==
    /\ pc = "draw"
    /\ key = Char("h")
    /\ selection = "Domains"
    /\ current_domains.selected = Some(1)
    /\ current_cookies.selected = None
    /\ current_cookies.items # <<>>

\* C18: down/j and up/k act on the list of the active level only: nothing
\* selected becomes index 0, next goes from the last index of a non-empty
\* list to 0 and previous from index 0 to the last index, and elsewhere one
\* step down or up; the active level and the selections of the other levels
\* stay.
C18_MoveWraps ==
    [][(NormalKey /\ (IsDown(key') \/ IsUp(key'))) =>
        LET sel == ActiveList.selected
            n == Len(ActiveList.items)
        IN /\ selection' = selection
           /\ selection # "Profiles" => profiles'.selected = profiles.selected
           /\ selection # "Domains" =>
                current_domains'.selected = current_domains.selected
           /\ selection # "Cookies" =>
                current_cookies'.selected = current_cookies.selected
           /\ sel = None => ActiveList'.selected = Some(0)
           /\ (sel # None /\ n >= 1 /\ IsDown(key')) =>
                ActiveList'.selected =
                    Some(IF sel[1] = n - 1 THEN 0 ELSE sel[1] + 1)
           /\ (sel # None /\ n >= 1 /\ IsUp(key')) =>
                ActiveList'.selected =
                    Some(IF sel[1] = 0 THEN n - 1 ELSE sel[1] - 1)
    ]_vars

\* k wrapped from the first domain to the last of three
C18_Witness ==
    /\ pc = "draw"
    /\ key = Char("k")
    /\ selection = "Domains"
    /\ Len(current_domains.items) = 3
    /\ current_domains.selected = Some(2)

\* the indices a stack yields when popped until empty
PopOrder(stack) == Reverse(stack)

Ascending(seq) == \A i \in 1..(Len(seq) - 1) : seq[i] < seq[i + 1]

\* the items "a.com", "b.com", "ab.com"
ExampleItems ==
    << <<"a", ".", "c", "o", "m">>, <<"b", ".", "c", "o", "m">>,
       <<"a", "b", ".", "c", "o", "m">> >>

\* C19: after a search commit the pending-match stack holds exactly the
\* indices of the matching items other than the selected one, without
\* repetition, and pops them in ascending order; for the items "a.com",
\* "b.com", "ab.com" and the query "a" index 0 is selected and the stack
\* holds index 2.
C19_PendingMatches ==
    [][SearchCommit =>
        LET sel == ActiveList'.selected
            rest == ItemMatches(search_field)
                      \ (IF sel = None THEN {} ELSE {sel[1]})
        IN /\ {search_matches'[i] : i \in 1..Len(search_matches')} = rest
           /\ Len(search_matches') = Cardinality(rest)
           /\ Ascending(PopOrder(search_matches'))
           /\ set_matches(ExampleItems, <<"a">>, <<>>)
                = [value |-> Some(0), rest |-> <<2>>]
    ]_vars

\* C20: Esc while the search input is open closes it and empties the
\* buffer; neither Esc, nor the key that opened the search, nor any step
\* taken while it is open other than the commit changes the active level or
\* a selection, so these are as they were before the search was opened.
C20_EscapeCancels ==
    [][/\ (pc = "poll" /\ search_open /\ pc' = "draw" /\ key' = Code("Esc"))
          => /\ ~search_open'
             /\ search_field' = <<>>
             /\ selection' = selection
             /\ Selections' = Selections
       /\ (/\ search_open \/ search_open'
           /\ pc \in {"poll", "draw"} /\ pc' \in {"poll", "draw"}
           /\ key' # Code("Enter"))
          => (selection' = selection /\ Selections' = Selections)
    ]_vars

\* Esc closed the search input with the second cookie of a domain selected
C20_Witness ==
    /\ pc = "draw"
    /\ key = Code("Esc")
    /\ ~search_open
    /\ search_field = <<>>
    /\ selection = "Cookies"
    /\ current_cookies.selected = Some(1)

\* the indices a committed search found: the one it selected and those it
\* left on the stack
Found ==
    {search_matches[i] : i \in 1..Len(search_matches)}
    \cup (IF ActiveList.selected = None THEN {} ELSE {ActiveList.selected[1]})

\* C21: the indices a committed search finds are exactly those of the items
\* of the active level whose displayed text contains the query, at every
\* level.
C21_MatchesDisplayText ==
    [][SearchCommit => Found' = ItemMatches(search_field)]_vars

\* the cookies of the selected domain of the selected store, in load order
ShownCookies ==
    IF ui_cdb # None /\ ui_domain # None
    THEN cookies_for_domain(ui_cdb[1], ui_domain[1])
    ELSE <<>>

\* C22: after a render, when a cookie is selected in the cookies list, the
\* fields column holds the attribute values of the cookie at that index of
\* the cookies of the selected domain, also when cookies share a name.
C22_FieldsOfSelectedCookie ==
    (/\ pc = "poll"
     /\ current_cookies.selected # None
     /\ current_cookies.selected[1] < Len(ShownCookies))
    => current_fields.items
         = match_fields(ShownCookies[current_cookies.selected[1] + 1])

\* C23: the loop enters the poll only from a render, which recomputes the
\* derived lists, and every step taken at the poll (a key handled, no key)
\* leaves it for the render, the exit or the panic: no two keys are handled
\* without a render between them.
C23_RenderBetweenKeys ==
    [][/\ (pc' = "poll" /\ pc # "poll")
          => /\ pc = "draw"
             /\ current_domains' = ui_domains
             /\ current_cookies' = ui_cookies
             /\ current_fields' = ui_fields
       /\ pc = "poll" => pc' \in {"draw", "disable_raw_mode", "panicked"}
    ]_vars

\* the render that followed the descent to the cookies filled the fields
\* column before the next poll
C23_Witness ==
    /\ pc = "poll"
    /\ key = NoKey
    /\ selection = "Cookies"
    /\ current_cookies.selected = Some(0)
    /\ current_fields.items # <<>>

\* C24: while the search input is open a character key, the navigation
\* keys and q among them, only appends the character to the buffer and the
\* loop goes on, Backspace only removes the last character, and no key
\* other than Enter changes the active level, a selection or the
\* pending-match stack.
C24_SearchKeysDoNotNavigate ==
    [][(pc = "poll" /\ search_open) =>
        /\ key'.code = "Char" =>
             /\ pc' = "draw"
             /\ search_open'
             /\ search_field' = Append(search_field, key'.ch)
        /\ (pc' = "draw" /\ key'.code = "Backspace") =>
             /\ search_open'
             /\ search_field' =
                  (IF search_field = <<>> THEN <<>>
                   ELSE SubSeq(search_field, 1, Len(search_field) - 1))
        /\ (pc' = "draw" /\ key' # Code("Enter")) =>
             /\ selection' = selection
             /\ Selections' = Selections
             /\ search_matches' = search_matches
    ]_vars

\* q and j were typed into the search input with the second domain
\* selected: the search is still open and the domain still selected
C24_Witness ==
    /\ pc = "draw"
    /\ search_open
    /\ key = Char("j")
    /\ search_field = <<"q", "j">>
    /\ selection = "Domains"
    /\ current_domains.selected = Some(1)

\* C25: whenever the search input is closed the search buffer is empty.
C25_ClosedSearchHasEmptyBuffer ==
    ~search_open => search_field = <<>>

\* Enter closed a search that selected the second domain, and the buffer is
\* empty
C25_Witness ==
    /\ pc = "draw"
    /\ key = Code("Enter")
    /\ ~search_open
    /\ search_field = <<>>
    /\ selection = "Domains"
    /\ current_domains.selected = Some(1)
    /\ search_matches # <<>>

(***************************************************************************)
(* Further claims on load_cookies                                          *)
(***************************************************************************)
\* C26: a loaded cookie has expiry 0 only if the raw expiry of its row is
\* 0, for a Firefox and for a Chrome store.
C26_ZeroExpiryOnlyFromZero ==
    LoadedAllRows =>
        \A i \in 1..Len(Store.cookies) :
            Store.cookies[i].expiry = <<0, 0>>
                => load.db.rows[i].expiry.v = <<0, 0, 0>>

\* the cookie table and the index of the column names of each engine
EngineTable == [Firefox |-> "moz_cookies", Chrome |-> "cookies"]
EngineColumns == [Firefox |-> 1, Chrome |-> 0]

\* the load read the table of engine e by the column names of engine e and
\* converted the timestamps as for engine e
LoadedAs(e) ==
    /\ load.db.table = EngineTable[e]
    /\ load.db.columns = EngineColumns[e]
    /\ LoadedAllRows =>
         \A i \in 1..Len(Store.cookies) :
            /\ Converted(e, load.db.rows[i].creation.v,
                         Store.cookies[i].creation)
            /\ Converted(e, load.db.rows[i].expiry.v,
                         Store.cookies[i].expiry)
            /\ Converted(e, load.db.rows[i].last_access.v,
                         Store.cookies[i].last_access)

====
